---- MODULE Spec2Model ----
(***************************************************************************)
(* Model of the simulated-portfolio engine of krakenmedium:                *)
(*   Backtester.run   (src/backtester.py)   - one-shot backtest            *)
(*   PaperTrader.run  (src/papertrader.py)  - incremental paper trading    *)
(*   Backtester.fetch_ohlc (src/backtester.py) - the paginated fetch       *)
(* driven by a pluggable strategy function (src/strategies/macd.py).       *)
(*                                                                         *)
(* Numbers.  cash, position and returns are Python floats.  They are       *)
(* modelled as exact rationals <<n, d>> in lowest terms (d > 0), so that   *)
(* cash / price and position * price are computed as the code computes     *)
(* them, without rounding.  IEEE rounding, overflow and underflow are not  *)
(* modelled.  The prices of a frame are numpy float64 values, so a         *)
(* division by a zero price does not raise: it gives inf (<<1, 0>>,        *)
(* <<-1, 0>>) or nan (<<0, 0>>), which compare as floats do (nan is        *)
(* neither == 0 nor > 0).                                                  *)
(*                                                                         *)
(* Time.  Timestamps are integers; the bar interval is Interval time       *)
(* units and timedelta(seconds=1) is one time unit.  The exchange holds    *)
(* the bars at times Interval, 2*Interval, ...                             *)
(***************************************************************************)
EXTENDS Integers, Sequences, FiniteSets, TLC

VARIABLES
    mode,            \* main.py --mode: "backtest" or "paper"
    bars,            \* the exchange's bar series (the Market Data Source)
    strat,           \* the strategy function handed to the driver
    initial_cash,    \* --initial-cash / the initial_cash parameter
    pc,              \* control point of the driver
    run,             \* backtest: number of the current call of Backtester.run
    df,              \* the fetched DataFrame (local df of both drivers)
    signals,         \* the dict returned by the strategy, in insertion order
    i,               \* backtest: index of the next row of df.iterrows()
    items,           \* paper: the entries of signals.items() not yet iterated
    cash,            \* cash / self.cash
    position,        \* position / self.position
    trades,          \* backtest: the trades list; paper: the printed trades
    result,          \* backtest: the dict returned by the current call
    prev,            \* backtest: the dict returned by the previous call
    now,             \* paper: datetime.utcnow() of the latest tick
    last_timestamp,  \* paper: self.last_timestamp (<<>> is None)
    seen,            \* paper: every bar fetched so far, by time (history)
    applied,         \* paper: the timestamps the loop body ran for (history)
    mark,            \* paper: last_timestamp when the latest fetch began
    at_interrupt,    \* paper: the ledger when the interrupt handler started
    upstream,        \* fetch: the behaviour of the exchange's OHLC endpoint
    fstart,          \* fetch: the start parameter of fetch_ohlc
    fend,            \* fetch: the end parameter of fetch_ohlc
    since,           \* fetch: the local since
    all_data,        \* fetch: the local all_data
    requests         \* fetch: the since of every request sent (history)

\* the history of the paper trader and the locals of a paginated fetch
paperHist == <<applied, mark, at_interrupt>>
pager == <<upstream, fstart, fend, since, all_data, requests>>

vars == <<mode, bars, strat, initial_cash, pc, run, df, signals, i, items,
          cash, position, trades, result, prev, now, last_timestamp, seen,
          applied, mark, at_interrupt, upstream, fstart, fend, since,
          all_data, requests>>

-----------------------------------------------------------------------------
(* Bounds of the model *)

MaxBars == 2
MaxPrice == 2
MaxCash == 1
Interval == 2
\* rows per page of the OHLC endpoint, and requests of one fetch_ohlc call
PageSize == 1
MaxRequests == 3

\* the latest time of the model: one interval after the last bar of a series
Horizon(series) == Interval * (Len(series) + 1)

-----------------------------------------------------------------------------
(* Exact rational arithmetic for the float operations of the ledger *)

RECURSIVE GCD(_, _)
GCD(a, b) == IF b = 0 THEN a ELSE GCD(b, a % b)

Abs(n) == IF n < 0 THEN -n ELSE n

Sign(n) == IF n < 0 THEN -1 ELSE IF n > 0 THEN 1 ELSE 0

\* n/d in lowest terms, d > 0; n/0 is inf, -inf or nan
Rat(n, d) ==
    IF d = 0 THEN <<Sign(n), 0>>
    ELSE LET g == GCD(Abs(n), Abs(d))
             s == IF d < 0 THEN -1 ELSE 1
         IN  <<(s * n) \div g, (s * d) \div g>>

Zero == Rat(0, 1)
RatOfInt(n) == Rat(n, 1)
IsZero(x) == x[1] = 0 /\ x[2] # 0
IsPos(x) == x[1] > 0
RatMul(x, y) == Rat(x[1] * y[1], x[2] * y[2])
\* x / y for a float64 y
RatDiv(x, y) == Rat(x[1] * y[2], x[2] * y[1])
RatSub(x, y) == Rat(x[1] * y[2] - y[1] * x[2], x[2] * y[2])

-----------------------------------------------------------------------------
(* Bar series *)

\* A row of the OHLC frame.  Only the columns the engine and the strategies
\* read are kept: the index (time), 'open' and 'close'.
Bar(t, o, c) == [time |-> t, open |-> o, close |-> c]

Prices == 1..MaxPrice

\* The series the exchange may hold: n bars, one per interval, any prices.
BarSeries ==
    UNION { { [k \in 1..n |-> Bar(k * Interval, o[k], c[k])] :
                o \in [1..n -> Prices], c \in [1..n -> Prices] } : n \in 0..MaxBars }

\* Series that break the contract of the data source: opens may be <= 0.
InvalidPrices == -1..MaxPrice
InvalidSeries ==
    UNION { { [k \in 1..n |-> Bar(k * Interval, o[k], c[k])] :
                o \in [1..n -> InvalidPrices], c \in [1..n -> Prices] } : n \in 0..MaxBars }

\* The series of the worked scenarios: opens 100, 110, 90, last close 95.
ScenarioBars ==
    <<Bar(Interval, 100, 100), Bar(2 * Interval, 110, 110), Bar(3 * Interval, 90, 95)>>

-----------------------------------------------------------------------------
(* DataFrames and the Market Data Source *)

\* A pandas DataFrame: its rows in index order and the columns added to the
\* fetched ones.  bound is FALSE while the local name df is not yet assigned.
DataFrame(rs) == [bound |-> TRUE, rows |-> rs, cols |-> {}]
Unbound == [bound |-> FALSE, rows |-> <<>>, cols |-> {}]

InRange(start, end, b) == b.time >= start /\ b.time <= end

\* Backtester.fetch_ohlc(start, end) against an exchange holding series
\* whose endpoint answers with the rows at or after since (the frame the
\* pagination loop, FetchPage and FetchFrame below, builds in that case):
\* the rows from since = start on, cut at end (df[df['time'] <= end]).
FetchOHLC(series, start, end) ==
    DataFrame(SelectSeq(series, LAMBDA b : InRange(start, end, b)))

\* The OHLC endpoint.  An upstream "contract" answers a request with the
\* first PageSize rows at or after since; an upstream "atleast" answers with
\* any run of at most PageSize consecutive rows at or after since, or with no
\* row; an upstream "free" answers with any run of at most PageSize
\* consecutive rows, whatever since is, so that pages may repeat or overlap
\* rows already returned.
Min(a, b) == IF a <= b THEN a ELSE b
Run(series, a, n) == SubSeq(series, a, a + n - 1)
ContractPage(series, t) ==
    LET rest == SelectSeq(series, LAMBDA b : b.time >= t)
    IN  IF Len(rest) <= PageSize THEN rest ELSE Run(rest, 1, PageSize)
Runs(series) ==
    UNION { { Run(series, a, n) :
                n \in 1..Min(PageSize, Len(series) - a + 1) } :
            a \in 1..Len(series) }
Pages(kind, series, t) ==
    IF kind = "contract" THEN {ContractPage(series, t)}
    ELSE IF kind = "atleast"
        THEN {<<>>} \cup {r \in Runs(series) : r[1].time >= t}
    ELSE {<<>>} \cup Runs(series)

\* df = df[df['time'] <= end] on the rows collected
Truncate(rows, end) == SelectSeq(rows, LAMBDA b : b.time <= end)

\* The while loop of fetch_ohlc run to its end: every all_data it can collect
\* from since = t on with at most n requests, acc being collected already.
RECURSIVE PageLoop(_, _, _, _, _, _)
PageLoop(kind, series, t, end, acc, n) ==
    IF n = 0 THEN {}
    ELSE UNION { IF res = <<>> THEN {acc}
                 ELSE IF res[Len(res)].time >= end THEN {acc \o res}
                 ELSE PageLoop(kind, series, res[Len(res)].time + 1, end,
                               acc \o res, n - 1) :
                 res \in Pages(kind, series, t) }

\* the frames fetch_ohlc(start, end) can return against an upstream
Frames(kind, series, start, end) ==
    IF kind = "contract" THEN {FetchOHLC(series, start, end)}
    ELSE { DataFrame(Truncate(rows, end)) :
             rows \in PageLoop(kind, series, start, end, <<>>, MaxRequests) }

\* df['close'].iloc[-1] and df.index[-1]
LastClose(d) == d.rows[Len(d.rows)].close
LastIndex(d) == d.rows[Len(d.rows)].time

\* df.loc[ts, 'open']
OpenAt(d, ts) ==
    LET k == CHOOSE j \in 1..Len(d.rows) : d.rows[j].time = ts
    IN  d.rows[k].open

-----------------------------------------------------------------------------
(* Strategy functions: df -> {timestamp: signal}                             *)
(* A dict is modelled by the sequence of its <<key, value>> entries in       *)
(* insertion order, which is the order signals.items() iterates in.          *)

\* The strategies the drivers are run with.  A strategy is pure: it has no
\* state across calls.
\*   "table":  the signal of a bar depends on that bar alone (table[k] is
\*             the signal of the k-th bar of the exchange, 0 for none); the
\*             dict holds the bars with a signal, in time order;
\*   "rtable": as "table", the dict filled latest bar first;
\*   "dense":  as "table", the dict holding every bar, 0 for HOLD;
\*   "cross":  a crossover strategy with the loop of strategies/macd.py,
\*             whose indicators are seeded at the first row of the frame it
\*             is given, as ewm(adjust=False) seeds the EMAs.
TableKinds == {"table", "rtable", "dense"}
Signals == {-1, 0, 1}
\* values a strategy may return that are no signal
InvalidSignals == {2}
TableStrategies(series, values) ==
    { [kind |-> kd, table |-> t] :
        kd \in TableKinds, t \in [1..Len(series) -> values] }
CrossStrategy == [kind |-> "cross", table |-> <<>>]

Reverse(sq) == [k \in 1..Len(sq) |-> sq[Len(sq) + 1 - k]]

\* the dict of a table strategy on the rows rs, rows k.. onward
RECURSIVE TableLoop(_, _, _, _, _)
TableLoop(table, dense, rs, k, acc) ==
    IF k > Len(rs) THEN acc
    ELSE LET ts == rs[k].time
             sg == table[ts \div Interval]
             new == \A j \in 1..Len(acc) : acc[j][1] # ts
         IN  TableLoop(table, dense, rs, k + 1,
                       IF (sg # 0 \/ dense) /\ new
                           THEN Append(acc, <<ts, sg>>) ELSE acc)

TableSignals(s, rs) ==
    LET asc == TableLoop(s.table, s.kind = "dense", rs, 1, <<>>)
    IN  IF s.kind = "rtable" THEN Reverse(asc) ELSE asc

\* The indicator columns of the crossover strategy.  The MACD line of
\* strategies/macd.py is the difference of two EMAs of close, both seeded with
\* the close of row 0, and the signal line is a smoothing of the MACD line
\* seeded with its row 0; here the MACD line is the close relative to the
\* close of row 0 and the signal line is the MACD line one row earlier.
Macd(rs, k) == rs[k].close - rs[1].close
SignalLine(rs, k) == IF k = 1 THEN Macd(rs, 1) ELSE Macd(rs, k - 1)
IndicatorCols == {"ema12", "ema26", "macd", "signal_line"}

\* the loop of strategies/macd.py over df.iterrows()
RECURSIVE CrossLoop(_, _, _, _, _)
CrossLoop(rs, k, prev_macd, prev_signal, acc) ==
    IF k > Len(rs) THEN acc
    ELSE LET ts == rs[k].time
             macd == Macd(rs, k)
             sig == SignalLine(rs, k)
             acc2 == IF prev_macd <= prev_signal /\ macd > sig
                         THEN Append(acc, <<ts, 1>>)
                     ELSE IF prev_macd >= prev_signal /\ macd < sig
                         THEN Append(acc, <<ts, -1>>)
                     ELSE acc
         IN  CrossLoop(rs, k + 1, macd, sig, acc2)

\* strategy(df): the returned dict, and df as the call leaves it (the
\* crossover strategy adds its indicator columns to the frame it is given)
Strategy(s, d) ==
    IF s.kind \in TableKinds
        THEN [signals |-> TableSignals(s, d.rows), df |-> d]
        ELSE [signals |-> CrossLoop(d.rows, 1, 0, 0, <<>>),
              df |-> [d EXCEPT !.cols = d.cols \cup IndicatorCols]]

\* signals.get(timestamp, 0)
SignalsGet(sigs, ts) ==
    IF \E k \in 1..Len(sigs) : sigs[k][1] = ts
        THEN sigs[CHOOSE k \in 1..Len(sigs) : sigs[k][1] = ts][2]
        ELSE 0

-----------------------------------------------------------------------------
(* Initial state: the command line of main.py and the exchange's data *)

Trade(action, ts, price) == [action |-> action, time |-> ts, price |-> price]

\* The closes a table strategy never reads (all but the last, which the
\* liquidation reads) are fixed to the open of their bar.
Setup(series, values) ==
    /\ mode \in {"backtest", "paper", "fetch"}
    /\ bars \in series
    /\ strat \in TableStrategies(bars, values) \cup {CrossStrategy}
    \* a lone call of fetch_ohlc reads no price, strategy or cash
    /\ mode = "fetch" =>
           /\ strat = CrossStrategy
           /\ \A k \in 1..Len(bars) : bars[k].open = 1 /\ bars[k].close = 1
           /\ initial_cash = 0
    /\ strat.kind \in TableKinds =>
           \A k \in 1..(Len(bars) - 1) : bars[k].close = bars[k].open
    \* the ledger is linear in the cash: an empty and a funded account
    /\ initial_cash \in (IF bars = ScenarioBars THEN {1000} ELSE {0, MaxCash})
    /\ pc = (IF mode = "backtest" THEN "call"
             ELSE IF mode = "paper" THEN "tick" ELSE "request")
    /\ run = 1
    /\ df = Unbound
    /\ signals = <<>>
    /\ i = 1
    /\ items = <<>>
    \* PaperTrader.__init__: self.cash = initial_cash, self.position = 0.0
    /\ cash = (IF mode = "paper" THEN RatOfInt(initial_cash) ELSE Zero)
    /\ position = Zero
    /\ trades = <<>>
    /\ result = <<>>
    /\ prev = <<>>
    /\ now = 0
    /\ last_timestamp = <<>>
    /\ seen = <<>>
    /\ applied = <<>>
    /\ mark = <<>>
    /\ at_interrupt = <<>>
    /\ upstream \in (IF mode = "fetch" THEN {"contract", "atleast", "free"}
                     ELSE IF mode = "backtest" THEN {"contract", "free"}
                     ELSE {"contract"})
    \* a backtest against an upstream that may repeat rows: only the order
    \* of the rows is of interest
    /\ (mode = "backtest" /\ upstream = "free") =>
           /\ strat.kind = "table"
           /\ \A k \in 1..Len(bars) : bars[k].open = 1 /\ bars[k].close = 1
           /\ initial_cash = MaxCash
    /\ fstart \in (IF mode = "fetch" THEN 0..Horizon(bars) ELSE {0})
    /\ fend \in (IF mode = "fetch" THEN fstart..Horizon(bars) ELSE {0})
    \* since = int(start.timestamp()); all_data = []
    /\ since = fstart
    /\ all_data = <<>>
    /\ requests = <<>>

\* inputs within the contracts of the data source and of the strategy
Init == Setup(BarSeries \cup {ScenarioBars}, Signals)

\* inputs that break them: opens <= 0, values that are no signal
InitInvalid == Setup(InvalidSeries, Signals \cup InvalidSignals)

-----------------------------------------------------------------------------
(* Backtester.run *)

\* BTAdvance with a BUY that leaves the cash in the ledger
BTAdvanceKeepsCash(c, p, timestamp, price, signal) ==
    IF signal = 1 /\ IsZero(p)
        THEN [cash |-> c,
              position |-> RatDiv(c, RatOfInt(price)),
              emit |-> <<Trade("buy", timestamp, price)>>]
    ELSE IF signal = -1 /\ IsPos(p)
        THEN [cash |-> RatMul(p, RatOfInt(price)),
              position |-> Zero,
              emit |-> <<Trade("sell", timestamp, price)>>]
    ELSE [cash |-> c, position |-> p, emit |-> <<>>]

\* BTAdvance with a BUY that does not test position == 0
BTAdvanceNoGuard(c, p, timestamp, price, signal) ==
    IF signal = 1
        THEN [cash |-> Zero,
              position |-> RatDiv(c, RatOfInt(price)),
              emit |-> <<Trade("buy", timestamp, price)>>]
    ELSE IF signal = -1 /\ IsPos(p)
        THEN [cash |-> RatMul(p, RatOfInt(price)),
              position |-> Zero,
              emit |-> <<Trade("sell", timestamp, price)>>]
    ELSE [cash |-> c, position |-> p, emit |-> <<>>]

\* The body of the loop over df.iterrows(): the ledger after the bar at
\* timestamp with open price and the signal of that bar, and the trades the
\* bar appends.
BTAdvance(c, p, timestamp, price, signal) ==
    IF signal = 1 /\ IsZero(p)
        THEN [cash |-> Zero,
              position |-> RatDiv(c, RatOfInt(price)),
              emit |-> <<Trade("buy", timestamp, price)>>]
    ELSE IF signal = -1 /\ IsPos(p)
        THEN [cash |-> RatMul(p, RatOfInt(price)),
              position |-> Zero,
              emit |-> <<Trade("sell", timestamp, price)>>]
    ELSE [cash |-> c, position |-> p, emit |-> <<>>]

\* "close any open position at end": the ledger and the appended trades
BTClose(c, p, d) ==
    IF IsPos(p)
        THEN [cash |-> RatMul(p, RatOfInt(LastClose(d))),
              position |-> p,
              emit |-> <<Trade("sell", LastIndex(d), LastClose(d))>>]
        ELSE [cash |-> c, position |-> p, emit |-> <<>>]

\* (cash - initial_cash) / initial_cash, initial_cash # 0
Returns(c, initial) == RatDiv(RatSub(c, RatOfInt(initial)), RatOfInt(initial))

\* the dict Backtester.run returns
BTResult(c, initial, trs, d) ==
    [initial_cash |-> initial,
     final_cash |-> c,
     returns |-> Returns(c, initial),
     trades |-> trs,
     data |-> d]

\* BTRun with a trades list that outlives the call
BTRunKeepsTrades ==
    /\ mode = "backtest"
    /\ pc = "call"
    /\ \E fetched \in Frames(upstream, bars, 0, Horizon(bars)) :
           /\ df' = fetched
           /\ signals' = Strategy(strat, fetched).signals
    /\ cash' = RatOfInt(initial_cash)
    /\ position' = Zero
    /\ i' = 1
    /\ pc' = "loop"
    /\ UNCHANGED <<mode, bars, strat, initial_cash, run, items, trades, result,
                   prev, now, last_timestamp, seen,
                   paperHist, pager>>

\* run(): fetch, compute the signals on a copy of df, initialise the ledger
BTRun ==
    /\ mode = "backtest"
    /\ pc = "call"
    /\ \E fetched \in Frames(upstream, bars, 0, Horizon(bars)) :
           /\ df' = fetched
           /\ signals' = Strategy(strat, fetched).signals
    /\ cash' = RatOfInt(initial_cash)
    /\ position' = Zero
    /\ trades' = <<>>
    /\ i' = 1
    /\ pc' = "loop"
    /\ UNCHANGED <<mode, bars, strat, initial_cash, run, items, result, prev,
                   now, last_timestamp, seen,
                   paperHist, pager>>

\* one iteration of the loop over the rows of df
BTBar ==
    /\ mode = "backtest"
    /\ pc = "loop"
    /\ i <= Len(df.rows)
    /\ LET timestamp == df.rows[i].time
           price == df.rows[i].open
           signal == SignalsGet(signals, timestamp)
           a == BTAdvance(cash, position, timestamp, price, signal)
       IN  /\ cash' = a.cash
           /\ position' = a.position
           /\ trades' = trades \o a.emit
    /\ i' = i + 1
    /\ UNCHANGED <<mode, bars, strat, initial_cash, pc, run, df, signals,
                   items, result, prev, now, last_timestamp, seen,
                   paperHist, pager>>

\* after the last row: close any open position
BTLiquidate ==
    /\ mode = "backtest"
    /\ pc = "loop"
    /\ i > Len(df.rows)
    /\ LET a == BTClose(cash, position, df)
       IN  /\ cash' = a.cash
           /\ position' = a.position
           /\ trades' = trades \o a.emit
    /\ pc' = "return"
    /\ UNCHANGED <<mode, bars, strat, initial_cash, run, df, signals, i,
                   items, result, prev, now, last_timestamp, seen,
                   paperHist, pager>>

\* the return statement; its division raises ZeroDivisionError when
\* initial_cash is 0
BTReturn ==
    /\ mode = "backtest"
    /\ pc = "return"
    /\ IF initial_cash = 0
           THEN /\ pc' = "raised"
                /\ UNCHANGED result
           ELSE /\ pc' = "done"
                /\ result' = <<BTResult(cash, initial_cash, trades, df)>>
    /\ UNCHANGED <<mode, bars, strat, initial_cash, run, df, signals, i,
                   items, cash, position, trades, prev, now, last_timestamp,
                   seen,
                   paperHist, pager>>

\* the caller calls run() a second time with the same arguments, against
\* an exchange that answers as it did the first time
BTAgain ==
    /\ mode = "backtest"
    /\ upstream = "contract"
    /\ pc = "done"
    /\ run = 1
    /\ run' = run + 1
    /\ prev' = result
    /\ result' = <<>>
    /\ pc' = "call"
    /\ UNCHANGED <<mode, bars, strat, initial_cash, df, signals, i, items,
                   cash, position, trades, now, last_timestamp, seen,
                   paperHist, pager>>

NextBT == BTRun \/ BTBar \/ BTLiquidate \/ BTReturn \/ BTAgain

\* The loop of Backtester.run as a fold: the ledger and the trades after the
\* rows k.. of rs, from the ledger l.
RECURSIVE BTFold(_, _, _, _)
BTFold(rs, sigs, k, l) ==
    IF k > Len(rs) THEN l
    ELSE LET a == BTAdvance(l.cash, l.position, rs[k].time, rs[k].open,
                            SignalsGet(sigs, rs[k].time))
         IN  BTFold(rs, sigs, k + 1,
                    [cash |-> a.cash, position |-> a.position,
                     trades |-> l.trades \o a.emit])

\* One whole call of Backtester.run on the series: the final ledger and the
\* trades list.
RunFull(series, s, initial) ==
    LET d == DataFrame(series)
        sigs == Strategy(s, d).signals
        l == BTFold(d.rows, sigs, 1,
                    [cash |-> RatOfInt(initial), position |-> Zero, trades |-> <<>>])
        a == BTClose(l.cash, l.position, d)
    IN  [cash |-> a.cash, position |-> a.position, trades |-> l.trades \o a.emit]

-----------------------------------------------------------------------------
(* PaperTrader.run *)

\* PTAdvance with a SELL that leaves the position in the ledger
PTAdvanceKeepsPosition(c, p, ts, price, signal) ==
    IF signal = 1 /\ IsZero(p)
        THEN [cash |-> Zero,
              position |-> RatDiv(c, RatOfInt(price)),
              emit |-> <<Trade("buy", ts, price)>>]
    ELSE IF signal = -1 /\ IsPos(p)
        THEN [cash |-> RatMul(p, RatOfInt(price)),
              position |-> p,
              emit |-> <<Trade("sell", ts, price)>>]
    ELSE [cash |-> c, position |-> p, emit |-> <<>>]

\* The body of the loop over signals.items() for an entry that is not
\* skipped: the ledger after the bar ts with open price and its signal, and the
\* trades it prints.
PTAdvance(c, p, ts, price, signal) ==
    IF signal = 1 /\ IsZero(p)
        THEN [cash |-> Zero,
              position |-> RatDiv(c, RatOfInt(price)),
              emit |-> <<Trade("buy", ts, price)>>]
    ELSE IF signal = -1 /\ IsPos(p)
        THEN [cash |-> RatMul(p, RatOfInt(price)),
              position |-> Zero,
              emit |-> <<Trade("sell", ts, price)>>]
    ELSE [cash |-> c, position |-> p, emit |-> <<>>]

\* The KeyboardInterrupt handler run on the ledger (c, p) with the local df
\* being d: what it leaves and prints, and how run() ends.  With an open
\* position it reads df['close'].iloc[-1], which raises when df is unassigned
\* (NameError) or empty (IndexError); the final cash is then not printed.
Handler(c, p, d) ==
    IF IsPos(p)
        THEN IF d.bound /\ d.rows # <<>>
                 THEN [cash |-> RatMul(p, RatOfInt(LastClose(d))),
                       position |-> Zero,
                       emit |-> <<Trade("closed", LastIndex(d), LastClose(d))>>,
                       pc |-> "stopped"]
                 ELSE [cash |-> c, position |-> p, emit |-> <<>>,
                       pc |-> "crashed"]
        ELSE [cash |-> c, position |-> p, emit |-> <<>>, pc |-> "stopped"]

\* start of the fetch window of a tick at time t
FetchStart(last, t) == IF last # <<>> THEN last[1] + 1 ELSE t - Interval

\* Skipped, but no entry is ever passed over
SkippedNever(last, ts) == FALSE

\* if self.last_timestamp and ts <= self.last_timestamp: continue
Skipped(last, ts) == last # <<>> /\ ts <= last[1]

\* the bars of series that are in known or in rs, in time order
Accumulate(series, known, rs) ==
    SelectSeq(series, LAMBDA b :
        \/ \E k \in 1..Len(known) : known[k] = b
        \/ \E k \in 1..Len(rs) : rs[k] = b)

\* PTFetch, but a tick that fetched no bars forgets the watermark
PTFetchForgetsMark ==
    /\ mode = "paper"
    /\ pc = "tick"
    /\ \E t \in 1..Horizon(bars) :
        /\ df.bound => t >= now + Interval
        /\ now' = t
        /\ mark' = last_timestamp
        /\ LET fetched == FetchOHLC(bars, FetchStart(last_timestamp, t), t)
               r == Strategy(strat, fetched)
           IN  /\ seen' = Accumulate(bars, seen, fetched.rows)
               /\ IF fetched.rows # <<>>
                      THEN /\ df' = r.df
                           /\ signals' = r.signals
                           /\ items' = r.signals
                           /\ pc' = (IF r.signals = <<>> THEN "tick" ELSE "iter")
                      ELSE /\ df' = fetched
                           /\ UNCHANGED <<signals, items, pc>>
               /\ last_timestamp' =
                      (IF fetched.rows # <<>> THEN last_timestamp ELSE <<>>)
    /\ UNCHANGED <<mode, bars, strat, initial_cash, run, i, cash, position,
                   trades, result, prev, applied,
                   at_interrupt, pager>>

\* One pass of the while loop up to the for loop: now = utcnow(), fetch the
\* window, and if it is not empty compute the signals on it.  A tick follows
\* the previous one after the sleep of one interval or later.
PTFetch ==
    /\ mode = "paper"
    /\ pc = "tick"
    /\ \E t \in 1..Horizon(bars) :
        /\ df.bound => t >= now + Interval
        /\ now' = t
        /\ mark' = last_timestamp
        /\ LET fetched == FetchOHLC(bars, FetchStart(last_timestamp, t), t)
               r == Strategy(strat, fetched)
           IN  /\ seen' = Accumulate(bars, seen, fetched.rows)
               /\ IF fetched.rows # <<>>
                      THEN /\ df' = r.df
                           /\ signals' = r.signals
                           /\ items' = r.signals
                           /\ pc' = (IF r.signals = <<>> THEN "tick" ELSE "iter")
                      ELSE /\ df' = fetched
                           /\ UNCHANGED <<signals, items, pc>>
    /\ UNCHANGED <<mode, bars, strat, initial_cash, run, i, cash, position,
                   trades, result, prev, last_timestamp, applied,
                   at_interrupt, pager>>

\* PTFetchFails, but run() catches the exception as it catches the interrupt
PTFetchFailsLiquidates ==
    /\ mode = "paper"
    /\ pc = "tick"
    /\ \E t \in 1..Horizon(bars) :
        /\ df.bound => t >= now + Interval
        /\ now' = t
    /\ pc' = "failed"
    /\ LET h == Handler(cash, position, df)
       IN  /\ cash' = h.cash
           /\ position' = h.position
           /\ trades' = trades \o h.emit
    /\ UNCHANGED <<mode, bars, strat, initial_cash, run, df, signals, i,
                   items, result, prev, last_timestamp, seen, paperHist,
                   pager>>

\* A pass of the while loop whose call of fetch_ohlc raises (see FetchRaises).
\* The try statement has no clause for it: the exception leaves run(), past
\* the handler of KeyboardInterrupt, before df is rebound.
PTFetchFails ==
    /\ mode = "paper"
    /\ pc = "tick"
    /\ \E t \in 1..Horizon(bars) :
        /\ df.bound => t >= now + Interval
        /\ now' = t
    /\ pc' = "failed"
    /\ UNCHANGED <<mode, bars, strat, initial_cash, run, df, signals, i,
                   items, cash, position, trades, result, prev,
                   last_timestamp, seen, paperHist, pager>>

\* one iteration of the loop over signals.items()
PTBar ==
    /\ mode = "paper"
    /\ pc = "iter"
    /\ items # <<>>
    /\ LET ts == Head(items)[1]
           signal == Head(items)[2]
       IN  IF Skipped(last_timestamp, ts)
               THEN UNCHANGED <<cash, position, trades, last_timestamp,
                                applied>>
               ELSE LET a == PTAdvance(cash, position, ts, OpenAt(df, ts), signal)
                    IN  /\ cash' = a.cash
                        /\ position' = a.position
                        /\ trades' = trades \o a.emit
                        /\ last_timestamp' = <<ts>>
                        /\ applied' = Append(applied, ts)
    /\ items' = Tail(items)
    /\ pc' = (IF Tail(items) = <<>> THEN "tick" ELSE "iter")
    /\ UNCHANGED <<mode, bars, strat, initial_cash, run, df, signals, i,
                   result, prev, now, seen, mark, at_interrupt, pager>>

\* A KeyboardInterrupt delivered during the sleep, during the fetch or
\* between two iterations of the for loop.
PTInterrupt ==
    /\ mode = "paper"
    /\ pc \in {"tick", "iter"}
    /\ LET h == Handler(cash, position, df)
       IN  /\ cash' = h.cash
           /\ position' = h.position
           /\ trades' = trades \o h.emit
           /\ pc' = h.pc
    /\ at_interrupt' = <<[cash |-> cash, position |-> position]>>
    /\ UNCHANGED <<mode, bars, strat, initial_cash, run, df, signals, i,
                   items, result, prev, now, last_timestamp, seen, applied,
                   mark, pager>>

\* The ledger between the two assignments of a transition of the loop body:
\* self.position = self.cash / price is done and self.cash = 0.0 is not, or
\* self.cash = self.position * price is done and self.position = 0.0 is not.
PTHalf(c, p, price, signal) ==
    IF signal = 1 /\ IsZero(p)
        THEN [cash |-> c, position |-> RatDiv(c, RatOfInt(price))]
        ELSE [cash |-> RatMul(p, RatOfInt(price)), position |-> p]

\* A KeyboardInterrupt delivered inside the loop body, between the two
\* assignments of a BUY or a SELL: the exception is raised between two
\* statements of the main thread, wherever it is, and the handler runs on the
\* ledger as the body left it.  (Delivered elsewhere in the body, the
\* interrupt finds the ledger of before or of after the bar.)
PTInterruptInBar ==
    /\ mode = "paper"
    /\ pc = "iter"
    /\ items # <<>>
    /\ LET ts == Head(items)[1]
           signal == Head(items)[2]
       IN  /\ ~Skipped(last_timestamp, ts)
           /\ \/ signal = 1 /\ IsZero(position)
              \/ signal = -1 /\ IsPos(position)
           /\ LET half == PTHalf(cash, position, OpenAt(df, ts), signal)
                  h == Handler(half.cash, half.position, df)
              IN  /\ at_interrupt' = <<half>>
                  /\ cash' = h.cash
                  /\ position' = h.position
                  /\ trades' = trades \o h.emit
                  /\ pc' = h.pc
    /\ UNCHANGED <<mode, bars, strat, initial_cash, run, df, signals, i,
                   items, result, prev, now, last_timestamp, seen, applied,
                   mark, pager>>

NextPT == PTFetch \/ PTFetchFails \/ PTBar \/ PTInterrupt \/ PTInterruptInBar

-----------------------------------------------------------------------------
(* Backtester.fetch_ohlc: the pagination loop *)

\* FetchPage, but the next request starts at the last row returned
FetchPageNoAdvance ==
    /\ mode = "fetch"
    /\ pc = "request"
    /\ Len(requests) < MaxRequests
    /\ requests' = Append(requests, since)
    /\ \E res \in Pages(upstream, bars, since) :
        IF res = <<>>
            THEN /\ pc' = "frame"
                 /\ UNCHANGED <<all_data, since>>
            ELSE LET last_ts == res[Len(res)].time
                 IN  /\ all_data' = all_data \o res
                     /\ IF last_ts >= fend
                            THEN pc' = "frame" /\ since' = since
                            ELSE pc' = "request" /\ since' = last_ts
    /\ UNCHANGED <<mode, bars, strat, initial_cash, run, df, signals, i,
                   items, cash, position, trades, result, prev, now,
                   last_timestamp, seen, paperHist, upstream, fstart, fend>>

\* One pass of the while loop: request the page at since, and either leave
\* the loop (empty page, or last row at or after end) or advance since.
FetchPage ==
    /\ mode = "fetch"
    /\ pc = "request"
    /\ Len(requests) < MaxRequests
    /\ requests' = Append(requests, since)
    /\ \E res \in Pages(upstream, bars, since) :
        IF res = <<>>
            THEN /\ pc' = "frame"
                 /\ UNCHANGED <<all_data, since>>
            ELSE LET last_ts == res[Len(res)].time
                 IN  /\ all_data' = all_data \o res
                     /\ IF last_ts >= fend
                            THEN pc' = "frame" /\ since' = since
                            ELSE pc' = "request" /\ since' = last_ts + 1
    /\ UNCHANGED <<mode, bars, strat, initial_cash, run, df, signals, i,
                   items, cash, position, trades, result, prev, now,
                   last_timestamp, seen, paperHist, upstream, fstart, fend>>

\* requests.get or resp.json() raises: the exception leaves fetch_ohlc
FetchRaises ==
    /\ mode = "fetch"
    /\ pc = "request"
    /\ pc' = "raised"
    /\ UNCHANGED <<mode, bars, strat, initial_cash, run, df, signals, i,
                   items, cash, position, trades, result, prev, now,
                   last_timestamp, seen, paperHist, pager>>

\* after the loop: the frame of the rows collected, cut at end
FetchFrame ==
    /\ mode = "fetch"
    /\ pc = "frame"
    /\ df' = DataFrame(Truncate(all_data, fend))
    /\ pc' = "fetched"
    /\ UNCHANGED <<mode, bars, strat, initial_cash, run, signals, i,
                   items, cash, position, trades, result, prev, now,
                   last_timestamp, seen, paperHist, pager>>

NextFetch == FetchPage \/ FetchRaises \/ FetchFrame

-----------------------------------------------------------------------------

Next == NextBT \/ NextPT \/ NextFetch

Spec == Init /\ [][Next]_vars

\* the program run on inputs that break the contracts
SpecInvalid == InitInvalid /\ [][Next]_vars

-----------------------------------------------------------------------------
(* The bar a step processes *)

\* backtest: the loop is at row i of df
BTAtBar == mode = "backtest" /\ pc = "loop" /\ i <= Len(df.rows)
BTTime == df.rows[i].time
BTOpen == df.rows[i].open
BTSignal == SignalsGet(signals, BTTime)

\* paper: the loop is at an entry of signals.items() that is not skipped
PTAtBar ==
    /\ mode = "paper" /\ pc = "iter" /\ items # <<>>
    /\ ~Skipped(last_timestamp, Head(items)[1])
PTTime == Head(items)[1]
PTOpen == OpenAt(df, PTTime)
PTSignal == Head(items)[2]

\* the ledger and trades after a BUY, a SELL, no transition
Bought(ts, price) ==
    /\ position' = RatDiv(cash, RatOfInt(price))
    /\ cash' = Zero
    /\ trades' = Append(trades, Trade("buy", ts, price))
Sold(ts, price) ==
    /\ cash' = RatMul(position, RatOfInt(price))
    /\ position' = Zero
    /\ trades' = Append(trades, Trade("sell", ts, price))
Held == cash' = cash /\ position' = position /\ trades' = trades

-----------------------------------------------------------------------------
(* C1 *)

\* C1: every bar processed by Backtester.run or by the tick body of
\* PaperTrader.run whose signal is BUY (1) while position == 0 sets position to
\* the previous cash divided by the bar's open, cash to 0, and emits exactly
\* one BUY trade at the bar's timestamp and open price.
BuyTransition ==
    [][ /\ (BTAtBar /\ i' = i + 1 /\ BTSignal = 1 /\ IsZero(position))
            => Bought(BTTime, BTOpen)
        /\ (PTAtBar /\ items' = Tail(items) /\ PTSignal = 1 /\ IsZero(position))
            => Bought(PTTime, PTOpen) ]_vars

\* a paper-trading BUY with cash at hand has just been printed
BuyTransitionWitness ==
    /\ mode = "paper"
    /\ trades # <<>>
    /\ trades[Len(trades)].action = "buy"
    /\ last_timestamp = <<trades[Len(trades)].time>>
    /\ IsPos(position)
    /\ IsZero(cash)

(* C2 *)

\* C2: every bar processed by either loop whose signal is SELL (-1) while
\* position > 0 sets cash to the previous position times the bar's open,
\* position to 0, and emits exactly one SELL trade at the bar's timestamp and
\* open price.
SellTransition ==
    [][ /\ (BTAtBar /\ i' = i + 1 /\ BTSignal = -1 /\ IsPos(position))
            => Sold(BTTime, BTOpen)
        /\ (PTAtBar /\ items' = Tail(items) /\ PTSignal = -1 /\ IsPos(position))
            => Sold(PTTime, PTOpen) ]_vars

\* a backtest SELL of an open position has just been appended
SellTransitionWitness ==
    /\ mode = "backtest"
    /\ pc = "loop"
    /\ i > 1
    /\ trades # <<>>
    /\ trades[Len(trades)] = Trade("sell", df.rows[i - 1].time, df.rows[i - 1].open)
    /\ IsPos(cash)
    /\ IsZero(position)

(* C3 *)

\* C3: a bar where neither transition applies (no signal or HOLD, BUY while
\* position > 0, SELL while position == 0) leaves cash and position unchanged
\* and appends no trade.
NoTransition(signal) ==
    ~(signal = 1 /\ IsZero(position)) /\ ~(signal = -1 /\ IsPos(position))

HoldFrame ==
    [][ /\ (BTAtBar /\ i' = i + 1 /\ NoTransition(BTSignal)) => Held
        /\ (PTAtBar /\ items' = Tail(items) /\ NoTransition(PTSignal)) => Held ]_vars

\* the backtest holds a position bought at the first bar and has passed a
\* second bar that signalled BUY again
HoldFrameWitness ==
    /\ mode = "backtest"
    /\ pc = "loop"
    /\ i = 3
    /\ SignalsGet(signals, df.rows[2].time) = 1
    /\ IsPos(position)
    /\ trades = <<Trade("buy", df.rows[1].time, df.rows[1].open)>>

-----------------------------------------------------------------------------
(* C4 *)

\* the ledger exists: always in paper mode, in a backtest once run() has
\* initialised its locals
LedgerLive == mode = "paper" \/ pc \in {"loop", "return", "done", "raised"}

\* C4: ledger conservation.  Between bars and after the run, either cash == 0
\* and position > 0, or position == 0 and cash >= 0; cash and position are
\* never both positive and, after initialization, never both zero.  (The
\* last clause is read for a positive initial cash, the reading that favours
\* the claim: a ledger initialised with cash 0 is both zero from the start.)
LedgerConservation ==
    LedgerLive =>
        /\ \/ IsZero(cash) /\ IsPos(position)
           \/ IsZero(position) /\ (IsZero(cash) \/ IsPos(cash))
        /\ ~(IsPos(cash) /\ IsPos(position))
        /\ initial_cash > 0 => ~(IsZero(cash) /\ IsZero(position))

(* C5 *)

\* the side of a trade; the "Closed position" print of the paper trader is a
\* sale
Side(t) == IF t.action = "closed" THEN "sell" ELSE t.action

\* C5: no double entry.  Neither the trades list of Backtester.run (with its
\* forced final SELL) nor the trades printed by PaperTrader.run hold two
\* consecutive trades of the same action.
NoDoubleEntry ==
    \A k \in 1..(Len(trades) - 1) : Side(trades[k]) # Side(trades[k + 1])

(* C6 *)

\* a trade list up to timestamps: the <<action, price>> of each trade
ActionPrice(trs) == [k \in 1..Len(trs) |-> <<Side(trs[k]), trs[k].price>>]

\* C6: incremental = full replay.  When the paper trader has been driven over
\* its fetch windows, every tick run to its end, and then stopped
\* (liquidating), it yields what one Backtester.run over all the bars it
\* fetched yields: the same final cash and the same trades (action, price).
\* (Stated for a positive initial cash.  The dict Backtester.run returns holds
\* no position; C7 is about the position the backtester is left with.)
IncrementalEqualsFull ==
    (mode = "paper" /\ pc = "stopped" /\ items = <<>> /\ initial_cash > 0) =>
        LET f == RunFull(seen, strat, initial_cash)
        IN  /\ cash = f.cash
            /\ ActionPrice(trades) = ActionPrice(f.trades)

(* C7 *)

\* C7: end-of-run liquidation.  Leaving the loop of Backtester.run with
\* position > 0 appends exactly one SELL at the last bar's timestamp and close,
\* sets cash to position times that close and leaves position == 0; with
\* position == 0 nothing is appended.
LiquidationRule ==
    [][ (mode = "backtest" /\ pc = "loop" /\ pc' = "return") =>
            IF IsPos(position)
                THEN /\ trades' = Append(trades,
                            Trade("sell", LastIndex(df), LastClose(df)))
                     /\ cash' = RatMul(position, RatOfInt(LastClose(df)))
                     /\ IsZero(position')
                ELSE trades' = trades ]_vars

(* C8 *)

\* C8: determinism.  A second call of Backtester.run with the same bar series,
\* strategy and initial cash returns the dict the first call returned (same
\* trades, same final cash, same data).
Determinism ==
    (mode = "backtest" /\ run = 2 /\ pc = "done") => result = prev

\* the second call has returned a result with trades, computed by the
\* strategy that writes columns into the frame it is given
DeterminismWitness ==
    /\ mode = "backtest" /\ run = 2 /\ pc = "done"
    /\ strat.kind = "cross"
    /\ Len(result[1].trades) > 1

(* C9 *)

\* C9: with an empty signal mapping Backtester.run returns zero trades,
\* final_cash equal to initial_cash, and a return of 0.
EmptySignals ==
    (mode = "backtest" /\ pc \in {"done", "raised"} /\ signals = <<>>) =>
        /\ pc = "done"
        /\ result[1].trades = <<>>
        /\ result[1].final_cash = RatOfInt(initial_cash)
        /\ result[1].returns = Zero

(* C10 *)

\* the first worked scenario: BUY on bar 1, SELL on bar 3
Scenario1 == bars = ScenarioBars /\ strat = [kind |-> "table", table |-> <<1, 0, -1>>]

\* C10: Backtester.run returns final_cash equal to the ledger cash at the end
\* of the run and returns == (final_cash - initial_cash) / initial_cash, for
\* every initial cash >= 0; in the scenario (opens 100, 110, 90, BUY on bar 1,
\* SELL on bar 3, initial cash 1000) the trades are BUY@100, SELL@90, the final
\* cash is 900 and the return is -10%.
ResultReport ==
    (mode = "backtest" /\ pc \in {"done", "raised"}) =>
        /\ pc = "done"
        /\ result[1].final_cash = cash
        /\ RatMul(result[1].returns, RatOfInt(initial_cash))
               = RatSub(result[1].final_cash, RatOfInt(initial_cash))
        /\ Scenario1 =>
               /\ ActionPrice(result[1].trades) = <<<<"buy", 100>>, <<"sell", 90>>>>
               /\ result[1].final_cash = RatOfInt(900)
               /\ result[1].returns = Rat(-1, 10)

(* C11 *)

\* a tick of the paper trader has run to the end of its for loop
TickDone == mode = "paper" /\ pc = "tick" /\ df.bound

\* the bar at ts was fetched by the latest tick above the watermark mark
AboveMark(ts) == mark = <<>> \/ ts > mark[1]

\* the mapping of the latest tick has an entry for ts
HasEntry(ts) == \E j \in 1..Len(signals) : signals[j][1] = ts

\* the number of times the loop body ran for the bar at ts
TimesApplied(ts) == Cardinality({j \in 1..Len(applied) : applied[j] = ts})

Ascending(ts) == \A a, b \in 1..Len(ts) : a < b => ts[a] < ts[b]

\* C11: exactly-once processing.  The bars are applied in ascending
\* timestamp order, each at most once, and when a tick is over every bar it
\* fetched above the watermark has been applied exactly once.  (A bar for
\* which the mapping has no entry is a HOLD, whose transition is the
\* identity: it is counted as applied, the reading that favours the claim.)
ExactlyOnce ==
    /\ Ascending(applied)
    /\ TickDone =>
           \A k \in 1..Len(df.rows) :
               (AboveMark(df.rows[k].time) /\ HasEntry(df.rows[k].time)) =>
                   TimesApplied(df.rows[k].time) = 1

(* C12 *)

\* the step is a fetch of the paper trader that returned
FetchReturns == mode = "paper" /\ pc = "tick" /\ now' # now /\ pc' \in {"tick", "iter"}

\* C12: a paper-trading tick whose fetch returns no bars is a no-op: cash,
\* position and last_timestamp are unchanged, no trade is emitted and the
\* loop over the signals is not entered.
EmptyTickNoOp ==
    [][(FetchReturns /\ df'.rows = <<>>) =>
           /\ cash' = cash
           /\ position' = position
           /\ last_timestamp' = last_timestamp
           /\ trades' = trades
           /\ applied' = applied
           /\ pc' = "tick"]_vars

\* a tick has fetched no bars while a position is open and the watermark set
EmptyTickWitness ==
    /\ TickDone /\ df.rows = <<>>
    /\ IsPos(position) /\ last_timestamp # <<>>

(* C13 *)

\* run() of the paper trader has been left through the interrupt handler
Cancelled == mode = "paper" /\ pc \in {"stopped", "crashed"}

\* C13: on cancellation of the paper trader, whatever the ticks before it,
\* the final cash is reported; a position that was open when the handler
\* started is liquidated at the close of the last known bar (position == 0,
\* cash == that position * that close), and with no open position the ledger
\* is left as it was.
CancellationLiquidates ==
    Cancelled =>
        LET a == at_interrupt[1]
        IN  /\ pc = "stopped"
            /\ IF IsPos(a.position)
                   THEN /\ seen # <<>>
                        /\ IsZero(position)
                        /\ cash = RatMul(a.position,
                                         RatOfInt(seen[Len(seen)].close))
                   ELSE cash = a.cash /\ position = a.position

(* C14 *)

\* the step is taken by the loop of the paper trader, not by an interrupt
ByLoop == at_interrupt' = at_interrupt

\* the step ends the run with an error surfaced to the caller, the ledger
\* and the trades left as they were
Rejected == pc' = "raised" /\ Held

\* C14: processing a bar whose open price is <= 0 fails with an error that
\* is surfaced to the caller: the bar is not silently skipped, no trade is
\* emitted for it and the ledger is not changed by it.  (Any error counts as
\* the InvalidBarError, the reading that favours the claim.)
InvalidBarRejected ==
    [][ /\ (BTAtBar /\ BTOpen <= 0) => Rejected
        /\ (PTAtBar /\ PTOpen <= 0 /\ ByLoop) => Rejected ]_vars

(* C15 *)

\* C15: a signal value that is none of BUY (1), SELL (-1) or HOLD/absent (0)
\* makes the simulation fail immediately with an error, rather than being
\* treated as HOLD.  (Any error counts as the OutOfRangeSignalError.)
OutOfRangeSignalRejected ==
    [][ /\ (BTAtBar /\ BTSignal \notin Signals) => Rejected
        /\ (PTAtBar /\ PTSignal \notin Signals /\ ByLoop) => Rejected ]_vars

(* C16 *)

\* fetch_ohlc has returned its frame
Fetched == mode = "fetch" /\ pc = "fetched"

\* the index of a frame
Times(d) == [k \in 1..Len(d.rows) |-> d.rows[k].time]

\* C16: for any sequence of upstream pages, including pages that repeat or
\* overlap rows already returned, fetch_ohlc returns a bar series whose
\* timestamps are strictly increasing (sorted ascending, no duplicates) and
\* none of which exceeds end.
FetchSortedUnique ==
    Fetched =>
        /\ Ascending(Times(df))
        /\ \A k \in 1..Len(df.rows) : df.rows[k].time <= fend

(* C17 *)

\* C17: after every paper-trading tick whose fetch returned at least one bar,
\* last_timestamp equals the greatest timestamp among the bars fetched in
\* that tick, whether or not the bars carried a BUY/SELL signal.
WatermarkAtLatest ==
    (TickDone /\ df.rows # <<>>) => last_timestamp = <<LastIndex(df)>>

(* C18 *)

\* C18: a fetch that raises during a paper-trading tick leaves cash, position
\* and last_timestamp exactly as they were before that tick and emits no
\* trade.
FailedFetchFrame ==
    [][(mode = "paper" /\ pc = "tick" /\ pc' = "failed") =>
           /\ cash' = cash
           /\ position' = position
           /\ last_timestamp' = last_timestamp
           /\ trades' = trades]_vars

\* a fetch has raised while a position was open and the watermark set
FailedFetchWitness ==
    /\ mode = "paper" /\ pc = "failed"
    /\ IsPos(position) /\ last_timestamp # <<>>

(* C19 *)

\* C19: in paper mode a data-source failure while fetching bars aborts only
\* the current tick: the driver does not terminate (run() is never left by the
\* exception of a failed fetch) and can fetch again on a later tick.
FetchFailureSurvived ==
    (mode = "paper" /\ pc = "failed") => ENABLED PTFetch

(* C20 *)

\* C20: an external interrupt of the paper trader takes effect only between
\* fetch/compute cycles, never in the middle of a ledger transition: at the
\* moment the cancellation handler starts, cash and position are not both
\* positive, and no BUY or SELL transition is left half-applied (position
\* updated without cash, or cash updated without position).  (A transition
\* half-applied to a ledger that holds anything is a ledger with cash and
\* position both positive: BUY has set position = cash / open and not yet
\* cash = 0, SELL has set cash = position * open and not yet position = 0.)
InterruptBetweenTransitions ==
    (mode = "paper" /\ at_interrupt # <<>>) =>
        ~(IsPos(at_interrupt[1].cash) /\ IsPos(at_interrupt[1].position))

(* C21 *)

\* the endpoint returns only rows with timestamp >= the requested since
SinceHonoured == mode = "fetch" /\ upstream \in {"contract", "atleast"}

\* the step is a pass of the pagination loop
PageStep == SinceHonoured /\ requests' # requests

\* the page of the step was empty; the last row of a page that was not
EmptyPage == all_data' = all_data
LastReturned == all_data'[Len(all_data')].time

\* C21: the pagination loop of fetch_ohlc terminates.  Against an upstream
\* that holds finitely many bars and returns only rows with timestamp >= the
\* requested since, every non-final pass advances since to the last returned
\* timestamp + 1, beyond its previous value; the loop stops as soon as a page
\* is empty or its last row's timestamp is >= end; and the loop never sends
\* more requests than the upstream holds bars, plus one.
PaginationTerminates ==
    /\ [](SinceHonoured =>
            /\ Len(requests) <= Len(bars) + 1
            /\ pc = "request" => Len(requests) <= Len(bars))
    /\ [][PageStep =>
            IF EmptyPage \/ LastReturned >= fend
                THEN pc' = "frame"
                ELSE /\ pc' = "request"
                     /\ since' = LastReturned + 1
                     /\ since' > since]_vars

\* a fetch has returned after as many requests as the upstream allows: one
\* per bar, each advancing since, and the one that found no row
PaginationWitness ==
    /\ Fetched /\ SinceHonoured
    /\ Len(bars) > 1
    /\ Len(requests) = Len(bars) + 1

(* C22 *)

\* a is a prefix of b
IsPrefix(a, b) == Len(a) <= Len(b) /\ SubSeq(b, 1, Len(a)) = a

NonDecreasing(ts) == \A a, b \in 1..Len(ts) : a < b => ts[a] <= ts[b]

TradeTimes(trs) == [k \in 1..Len(trs) |-> trs[k].time]

\* a call of Backtester.run is past the creation of its trades list
BTLogLive == mode = "backtest" /\ pc \in {"loop", "return", "done", "raised"}

\* C22: the trade log built by Backtester.run is append-only and ordered by
\* timestamp: at every step of a call the previous log is a prefix of the new
\* one, and the trade timestamps are non-decreasing along the log, including
\* the forced final SELL.
TradeLogOrdered ==
    /\ [](BTLogLive => NonDecreasing(TradeTimes(trades)))
    /\ [][BTLogLive => IsPrefix(trades, trades')]_vars

(* C23 *)

\* C23: in PaperTrader.run last_timestamp never decreases: whenever it
\* changes it is set to a timestamp, strictly greater than its previous value
\* if it had one, for any order in which the strategy's signal mapping is
\* iterated and any overlap between fetched windows.
WatermarkIncreases ==
    [][(mode = "paper" /\ last_timestamp' # last_timestamp) =>
           /\ last_timestamp' # <<>>
           /\ last_timestamp # <<>> => last_timestamp'[1] > last_timestamp[1]
      ]_vars

\* the watermark has been moved twice, and the mapping of the latest tick
\* held an entry at or below it, which the loop passed over
WatermarkWitness ==
    /\ mode = "paper" /\ pc = "tick"
    /\ Len(applied) > 1
    /\ last_timestamp = <<applied[Len(applied)]>>
    /\ \E j \in 1..Len(signals) :
           /\ signals[j][1] < last_timestamp[1]
           /\ TimesApplied(signals[j][1]) = 0

====
